---------------------------- MODULE Spec2Model ----------------------------
(***************************************************************************)
(* Model of the OpenAI -> NVIDIA NIM proxy.                                *)
(*                                                                         *)
(*  - src/server.js, lines 283-543: the chat-completions handler with the  *)
(*    per-chat memory maps, summarizeChat and requestNimWithDynamicRetry.  *)
(*  - src/unnamed/part_000 and src/server.js lines 166-248: the handlers   *)
(*    that forward an upstream event stream to the client.                 *)
(*                                                                         *)
(* A handler is an async function: it runs without interruption up to its  *)
(* next await (an axios.post) and is resumed when the reply arrives.  One  *)
(* action models one such run-to-await segment.                            *)
(*                                                                         *)
(* Temperatures are integer hundredths (0.85 is 85).  A JavaScript value   *)
(* that may be undefined is a set: {} for undefined, {v} for the value v.  *)
(***************************************************************************)
EXTENDS Integers, Sequences, FiniteSets, TLC

(***************************************************************************)
(* Program constants, src/server.js lines 309-318.                         *)
(***************************************************************************)
MAX_MESSAGES == 80
MAX_MESSAGE_CHARS == 8000
MIN_RESPONSE_TOKENS == 50
MAX_RETRIES == 2
SUMMARY_TRIGGER_MESSAGES == 60
SUMMARY_COOLDOWN == 40

\* temperature ?? 0.85 (line 516, line 420), the step +0.05 and the
\* ceiling 1 of Math.min (line 420), in hundredths
DEFAULT_TEMPERATURE == 85
TEMPERATURE_STEP == 5
TEMPERATURE_CEILING == 100
\* safeMessages.slice(0, -20), line 473
SUMMARY_KEEP_RECENT == 20
\* res.status(500), line 533
INTERNAL_ERROR_STATUS == 500

(***************************************************************************)
(* Bounds of the model.                                                    *)
(***************************************************************************)
\* handler instances that may be suspended at an await at the same time
MaxInFlight == 2
\* requests received in one behaviour when requests overlap
MaxRequests == 2
\* requests received in one behaviour when each is answered before the next
MaxSeqRequests == 3
\* requests received in one behaviour when the retry helper is examined
MaxRetryRequests == 1

Slots == 1..MaxInFlight

(***************************************************************************)
(* Inputs.                                                                 *)
(***************************************************************************)
\* values of the x-chat-id header; {} is a request without the header
HeaderIds == {"a", "b"}
Headers == {{h} : h \in HeaderIds} \cup {{}}
\* lengths of req.body.messages
WindowLengths == {60, 61, 70, 101}
\* the lengths drawn from when requests overlap
OverlapWindowLengths == {60, 61, 101}
\* req.body.temperature
Temperatures == {{}, {0}, {98}, {150}}
\* What the final message of a body says: a turn of the roleplay, or one of
\* the two in-band commands (wipe this chat's memory, wipe every memory).
CHAT_TURN == "<chat turn>"
WIPE_CHAT_COMMAND == "<wipe this chat>"
WIPE_ALL_COMMAND == "<wipe all chats>"
WipeCommands == {WIPE_CHAT_COMMAND, WIPE_ALL_COMMAND}
FinalMessages == {CHAT_TURN} \cup WipeCommands

NULL == "<null>"
UNDEFINED == "<undefined>"

\* The i-th message of a client body of n messages.  A content is the text
\* numbered src cut to its first len characters; the last message of a body
\* is longer than MAX_MESSAGE_CHARS.
BodyMessage(n, i) ==
    [role |-> IF i % 2 = 1 THEN "user" ELSE "assistant",
     content |-> [src |-> i, len |-> IF i = n THEN 9000 ELSE 100]]

BodyMessages(n) == [i \in 1..n |-> BodyMessage(n, i)]

(***************************************************************************)
(* Pure helpers of the handler.                                            *)
(***************************************************************************)
Min(a, b) == IF a <= b THEN a ELSE b
Max(a, b) == IF a >= b THEN a ELSE b

\* Array.prototype.slice(-k): the last k elements
SliceLast(s, k) == SubSeq(s, Max(1, Len(s) - k + 1), Len(s))
\* slice(-k) where slice(0, -k) is meant
SliceDropLastKeepsLast(s, k) == SliceLast(s, k)
\* Array.prototype.slice(0, -k): all but the last k elements
SliceDropLast(s, k) == SubSeq(s, 1, Max(0, Len(s) - k))

\* lines 443-447: content.slice(0, MAX_MESSAGE_CHARS) when longer
ClampMessage(m) ==
    IF m.content.len > MAX_MESSAGE_CHARS
    THEN [m EXCEPT !.content.len = MAX_MESSAGE_CHARS]
    ELSE m

ClampMessages(messages) == [i \in 1..Len(messages) |-> ClampMessage(messages[i])]

\* lines 482-484
TrimMessages(safeMessages) ==
    IF Len(safeMessages) > MAX_MESSAGES
    THEN SliceLast(safeMessages, MAX_MESSAGES)
    ELSE safeMessages

\* Map.prototype.has / get on a map modelled as a function
Has(map, k) == k \in DOMAIN map
\* a set that stores the value under every key of the map
MapSetEveryKey(map, k, v) == [x \in DOMAIN map \cup {k} |-> v]
MapSet(map, k, v) == [x \in DOMAIN map \cup {k} |-> IF x = k THEN v ELSE map[x]]

\* line 435: `temp-${Date.now()}-${Math.random()...}`, a fresh key per request
TempChatId(k) == "temp-" \o ToString(k)

\* lines 433-435
ResolveChatId(header, k) ==
    IF header # {} THEN CHOOSE h \in header : TRUE ELSE TempChatId(k)

\* lines 455-458: the text every core memory is seeded with
CORE_MEMORY_TEXT == "You have an ongoing personal connection with the user."
\* lines 496-504
ROLEPLAY_LOCK_TEXT == "You are a fictional character in an ongoing roleplay."

\* line 465: LAST_SUMMARY_AT.get(CHAT_ID) || 0
LastAt(lastSummaryAt, id) == IF Has(lastSummaryAt, id) THEN lastSummaryAt[id] ELSE 0

\* the trigger with >= in place of > in its first test
SummaryTriggeredAtThreshold(len, lastAt) ==
    /\ len >= SUMMARY_TRIGGER_MESSAGES
    /\ len - lastAt >= SUMMARY_COOLDOWN

\* the trigger without its cooldown test
SummaryTriggeredNoCooldown(len, lastAt) == len > SUMMARY_TRIGGER_MESSAGES

\* lines 467-470: the trigger condition
SummaryTriggered(len, lastAt) ==
    /\ len > SUMMARY_TRIGGER_MESSAGES
    /\ len - lastAt >= SUMMARY_COOLDOWN

\* line 476: if (summary), JavaScript truthiness of the value returned
Truthy(v) == v \notin {NULL, UNDEFINED, ""}


(***************************************************************************)
(* Upstream replies.  axios.post resolves for a 2xx status and rejects     *)
(* otherwise (an HTTP error carries err.response.status, a transport error *)
(* carries no response).                                                   *)
(***************************************************************************)
\* the statuses an upstream HTTP failure is drawn from
UpstreamErrorStatuses == {429, 503}

HttpError(status) ==
    [kind |-> "http", status |-> {status},
     message |-> "Request failed with status code " \o ToString(status)]
TransportError == [kind |-> "transport", status |-> {}, message |-> "socket hang up"]
\* a 2xx reply whose data.choices is empty: reading choices[0].message throws
NoChoices == [kind |-> "nochoices", status |-> {},
              message |-> "Cannot read properties of undefined (reading 'message')"]
\* a 2xx reply with data.choices[0].message.content = content ({} when absent)
OkReply(content) == [kind |-> "ok", content |-> content]

FailureReplies == {HttpError(s) : s \in UpstreamErrorStatuses} \cup {TransportError, NoChoices}

\* texts the summarizer model may answer with
SummaryTexts == {"S1", "S2"}
SummaryReplies ==
    {OkReply({t}) : t \in SummaryTexts \cup {""}} \cup {OkReply({})} \cup FailureReplies

\* A completion text, by what lines 414-416 read of it: its number of words,
\* whether whitespace precedes the first word or follows the last one, and
\* whether it contains an asterisk.  words = 0 with lead is a text of
\* whitespace only; words = 0 without lead is the empty string.
Text(words, lead, trail, star) ==
    [words |-> words, lead |-> lead, trail |-> trail, star |-> star]
EmptyText == Text(0, FALSE, FALSE, FALSE)
GoodText == Text(50, FALSE, FALSE, TRUE)
ShortText == Text(10, FALSE, FALSE, TRUE)
NoActionText == Text(60, FALSE, FALSE, FALSE)
PaddedText == Text(48, TRUE, TRUE, TRUE)
CompletionTexts == {GoodText, ShortText, NoActionText, PaddedText}
CompletionReplies ==
    {OkReply({t}) : t \in CompletionTexts} \cup {OkReply({})} \cup FailureReplies

(***************************************************************************)
(* summarizeChat, lines 355-397.                                           *)
(***************************************************************************)
\* a catch that returns the message of the error
summarizeChatReturnsError(reply) ==
    IF reply.kind = "ok"
    THEN IF reply.content = {} THEN UNDEFINED ELSE CHOOSE t \in reply.content : TRUE
    ELSE reply.message

\* The value summarizeChat returns for an upstream reply: the content of the
\* first choice (undefined when absent), null when the call or the read of
\* the reply throws.
summarizeChat(reply) ==
    IF reply.kind = "ok"
    THEN IF reply.content = {} THEN UNDEFINED ELSE CHOOSE t \in reply.content : TRUE
    ELSE NULL

(***************************************************************************)
(* requestNimWithDynamicRetry, lines 402-426.                              *)
(***************************************************************************)
\* line 414: message?.content || ''
ContentOrEmpty(content) == IF content = {} THEN EmptyText ELSE CHOOSE t \in content : TRUE

\* line 415: content.split(/\s+/).length.  Splitting yields an empty first
\* piece when the text starts with whitespace and an empty last piece when it
\* ends with whitespace; the empty string splits into one empty piece.
WordCount(text) ==
    IF text.words = 0
    THEN IF text.lead THEN 2 ELSE 1
    ELSE text.words + (IF text.lead THEN 1 ELSE 0) + (IF text.trail THEN 1 ELSE 0)

\* line 416: content.includes('*')
HasAction(text) == text.star

\* line 418, first conjunct: the reply is too short or has no action marker
QualityFails(text) == WordCount(text) < MIN_RESPONSE_TOKENS \/ ~HasAction(text)

\* the retry condition with <= in place of < in its bound
ShouldRetryOnceMore(text, attempt) == QualityFails(text) /\ attempt <= MAX_RETRIES

\* line 418: the whole retry condition
ShouldRetry(text, attempt) == QualityFails(text) /\ attempt < MAX_RETRIES

\* the raised temperature without Math.min
RetryTemperatureUnclamped(temperature) ==
    (IF temperature = {} THEN DEFAULT_TEMPERATURE
     ELSE CHOOSE t \in temperature : TRUE) + TEMPERATURE_STEP

\* line 420: Math.min((nimRequest.temperature ?? 0.85) + 0.05, 1)
RetryTemperature(temperature) ==
    Min((IF temperature = {} THEN DEFAULT_TEMPERATURE
         ELSE CHOOSE t \in temperature : TRUE) + TEMPERATURE_STEP,
        TEMPERATURE_CEILING)

(***************************************************************************)
(* The chat-completions handler, lines 431-535.                            *)
(***************************************************************************)
SystemMessage(text) == [role |-> "system", content |-> text]

\* the injection with the rolling summary placed after the persona lock
MemoryInjectionSummaryLast(core, summaries, id) ==
    <<SystemMessage(core[id])>>
    \o <<SystemMessage(ROLEPLAY_LOCK_TEXT)>>
    \o (IF Has(summaries, id) THEN <<SystemMessage(summaries[id])>> ELSE <<>>)

\* lines 489-506: the memory injection; the summary layer is present exactly
\* when the summaries map has the key
MemoryInjection(core, summaries, id) ==
    <<SystemMessage(core[id])>>
    \o (IF Has(summaries, id) THEN <<SystemMessage(summaries[id])>> ELSE <<>>)
    \o <<SystemMessage(ROLEPLAY_LOCK_TEXT)>>

\* A run of consecutive messages of a client body is kept in the state as the
\* pair of the positions of its first and last message in the body (<<1, 0>>
\* for no message); RunOf recovers the messages.
RunRange(run) ==
    IF run = <<>> THEN <<1, 0>>
    ELSE <<run[1].content.src, run[Len(run)].content.src>>

\* lines 482-520: trim, inject, and the request handed to the retry helper;
\* messages is [...memoryInjection, ...safeMessages]
BuildNimRequest(core, summaries, id, safeMessages, temperature) ==
    [injection |-> MemoryInjection(core, summaries, id),
     window |-> RunRange(TrimMessages(safeMessages)),
     temperature |-> IF temperature = {} THEN DEFAULT_TEMPERATURE
                     ELSE CHOOSE t \in temperature : TRUE]

\* the seeding without its has() test
SeedCoreAlways(core, id) == TRUE

\* line 452: the core memory is seeded when the map lacks the key
ShouldSeedCore(core, id) == ~Has(core, id)

\* the store of the summary without its truthiness test
PersistSummaryAlways(summary) == TRUE

\* line 476: the summary and the cooldown mark are stored when summary is truthy
ShouldPersistSummary(summary) == Truthy(summary)

\* the cooldown mark taken from the trimmed list
SummaryMarkAfterTrim(safeMessages) == Len(TrimMessages(safeMessages))

\* line 478: the cooldown mark stored with a summary, safeMessages.length of
\* the clamped, untrimmed list
SummaryMark(safeMessages) == Len(safeMessages)

\* lines 531-534: the status of the error response
ErrorStatus(err) == INTERNAL_ERROR_STATUS

(***************************************************************************)
(* State.                                                                  *)
(***************************************************************************)
VARIABLES
    CORE_MEMORIES,      \* line 323: chat id -> core memory text
    STORY_SUMMARIES,    \* line 324: chat id -> rolling summary
    LAST_SUMMARY_AT,    \* line 325: chat id -> window length at the last summary
    req,                \* slot -> the locals of the handler instance running there
    finished,           \* the handler instance the last step ended, with the
                        \* response it sent; idle when the step ended none
    received,           \* number of requests received so far
    tempIds,            \* number of temp- chat ids generated so far
    coreWrites,         \* history: chat id -> number of CORE_MEMORIES.set calls
    summarizedAt,       \* history: chat id -> window lengths whose summary was stored
    stream              \* the streaming response in progress: the locals of its
                        \* handler, what upstream sends and what the client was sent

vars == <<CORE_MEMORIES, STORY_SUMMARIES, LAST_SUMMARY_AT, req, finished, received, tempIds,
          coreWrites, summarizedAt, stream>>

NONE == "<none>"

\* no streaming response in progress.  lines and clientClosed are history:
\* the complete lines the 'data' listener has looped over so far; empty while
\* the client is connected, and afterwards the number of frames written and of
\* bytes consumed when it disconnected.
NoStream ==
    [pc |-> "idle", handler |-> NONE, upstream |-> <<>>, delivered |-> 0, chunks |-> 0,
     buffer |-> <<>>, reasoningStarted |-> FALSE, written |-> <<>>,
     lines |-> <<>>, clientClosed |-> {}]

NoResponse == [status |-> 0, choices |-> {}, error |-> NONE]

\* a slot no handler instance runs in
IdleRequest ==
    [pc |-> "idle", CHAT_ID |-> NONE, nMessages |-> 0, finalMessage |-> NONE, lastAt |-> 0,
     summaryInput |-> <<1, 0>>, summary |-> NONE,
     nimRequest |-> [injection |-> <<>>, window |-> <<1, 0>>, temperature |-> 0],
     attempt |-> 0, temps |-> <<>>, quality |-> <<>>,
     response |-> {}, err |-> {}, res |-> NoResponse]

\* line 442 and lines 443-447 for a body of n messages, evaluated once for
\* each body length
SafeMessagesByLength == [n \in WindowLengths |-> ClampMessages(BodyMessages(n))]
SafeMessages(n) == SafeMessagesByLength[n]

\* the messages a stored range stands for, in a request with a body of n messages
RunOf(n, range) == SubSeq(SafeMessages(n), range[1], range[2])

\* nimRequest.messages of slot r, line 508
NimMessages(r) ==
    req[r].nimRequest.injection \o RunOf(req[r].nMessages, req[r].nimRequest.window)

\* the messages handed to summarizeChat by slot r, line 473
SummaryMessages(r) == RunOf(req[r].nMessages, req[r].summaryInput)

Init ==
    /\ CORE_MEMORIES = <<>>
    /\ STORY_SUMMARIES = <<>>
    /\ LAST_SUMMARY_AT = <<>>
    /\ req = [r \in Slots |-> IdleRequest]
    /\ finished = IdleRequest
    /\ received = 0
    /\ tempIds = 0
    /\ coreWrites = <<>>
    /\ summarizedAt = <<>>
    /\ stream = NoStream

\* lines 513-520 and 403-412: the first completion call is issued.  The
\* locals lastAt and the argument of summarizeChat are read no more and are
\* reset.
IssueFirstCall(r0, core, summaries, id, safeMessages, temperature) ==
    LET nimRequest == BuildNimRequest(core, summaries, id, safeMessages, temperature)
    IN  [r0 EXCEPT !.pc = "calling",
                   !.lastAt = 0,
                   !.summaryInput = <<1, 0>>,
                   !.nimRequest = nimRequest,
                   !.attempt = 0,
                   !.temps = <<nimRequest.temperature>>]

\* Lines 432-474: a request arrives and runs to its first await, which is the
\* summarizer call when the trigger holds and the first completion call
\* otherwise.  Handler instances have no identity: the request takes the
\* first free slot.  No line of the handler reads what a message says: the
\* final message of the body is carried along and decides nothing.
ReceiveBody(r, header, n, temperature, final) ==
    /\ req[r].pc = "idle"
    /\ \A q \in Slots : q < r => req[q].pc # "idle"
    /\ finished' = IdleRequest
    /\ received' = received + 1
    /\ tempIds' = IF header = {} THEN tempIds + 1 ELSE tempIds
    /\ LET id == ResolveChatId(header, tempIds + 1)
           seed == ShouldSeedCore(CORE_MEMORIES, id)
           core == IF seed THEN MapSet(CORE_MEMORIES, id, CORE_MEMORY_TEXT)
                   ELSE CORE_MEMORIES
           lastAt == LastAt(LAST_SUMMARY_AT, id)
           safeMessages == SafeMessages(n)
           r0 == [IdleRequest EXCEPT !.CHAT_ID = id, !.nMessages = n,
                                        !.finalMessage = final, !.lastAt = lastAt]
       IN  /\ CORE_MEMORIES' = core
           /\ coreWrites' = IF seed
                            THEN MapSet(coreWrites, id,
                                        (IF Has(coreWrites, id) THEN coreWrites[id] ELSE 0) + 1)
                            ELSE coreWrites
           /\ req' = [req EXCEPT ![r] =
                 IF SummaryTriggered(Len(safeMessages), lastAt)
                 THEN [r0 EXCEPT !.pc = "summarizing",
                                 !.summaryInput = RunRange(
                                     SliceDropLast(safeMessages, SUMMARY_KEEP_RECENT)),
                                 !.nimRequest.temperature =
                                     IF temperature = {} THEN DEFAULT_TEMPERATURE
                                     ELSE CHOOSE t \in temperature : TRUE]
                 ELSE IssueFirstCall(r0, core, STORY_SUMMARIES, id, safeMessages,
                                     temperature)]
    /\ UNCHANGED <<STORY_SUMMARIES, LAST_SUMMARY_AT, summarizedAt, stream>>

\* a request whose final message is a turn of the roleplay
Receive(r, header, n, temperature) == ReceiveBody(r, header, n, temperature, CHAT_TURN)

\* Lines 471-520: the summarizer call of slot r returns; the summary is
\* stored when truthy, and the first completion call is issued.
SummaryReturns(r, reply) ==
    /\ req[r].pc = "summarizing"
    /\ LET id == req[r].CHAT_ID
           safeMessages == SafeMessages(req[r].nMessages)
           summary == summarizeChat(reply)
           persist == ShouldPersistSummary(summary)
           summaries == IF persist THEN MapSet(STORY_SUMMARIES, id, summary)
                        ELSE STORY_SUMMARIES
       IN  /\ STORY_SUMMARIES' = summaries
           /\ LAST_SUMMARY_AT' = IF persist
                                 THEN MapSet(LAST_SUMMARY_AT, id, SummaryMark(safeMessages))
                                 ELSE LAST_SUMMARY_AT
           /\ summarizedAt' = IF persist
                              THEN MapSet(summarizedAt, id,
                                          (IF Has(summarizedAt, id) THEN summarizedAt[id]
                                           ELSE {}) \cup {Len(safeMessages)})
                              ELSE summarizedAt
           /\ req' = [req EXCEPT ![r] =
                 IssueFirstCall([req[r] EXCEPT !.summary = summary],
                                CORE_MEMORIES, summaries, id, safeMessages,
                                {req[r].nimRequest.temperature})]
    /\ finished' = IdleRequest
    /\ UNCHANGED <<CORE_MEMORIES, received, tempIds, coreWrites, stream>>

\* a catch that answers a failed call with another call
CatchErrorAndRetry(r0, err) ==
    [slot |-> [r0 EXCEPT !.attempt = @ + 1,
                         !.temps = Append(@, r0.nimRequest.temperature),
                         !.quality = Append(@, FALSE)],
     finished |-> IdleRequest]

\* Lines 531-534: the catch of the handler.  The error response is sent and
\* the handler instance ends; no call is made from here.
CatchError(r0, err) ==
    [slot |-> IdleRequest,
     finished |-> [r0 EXCEPT !.pc = "done",
                             !.err = {err},
                             !.res = [status |-> ErrorStatus(err), choices |-> {},
                                      error |-> err.message]]]

\* Lines 414-425 and 522-529: a 2xx reply with a first choice.  A reply that
\* fails the quality test while attempt < MAX_RETRIES is answered by the next
\* call, at the raised temperature; any other reply is sent to the client and
\* the handler instance ends.
OnCompletion(r0, reply) ==
    LET text == ContentOrEmpty(reply.content)
        passed == ~QualityFails(text)
    IN  IF ShouldRetry(text, r0.attempt)
        THEN [slot |-> [r0 EXCEPT
                           !.nimRequest.temperature = RetryTemperature({@}),
                           !.attempt = @ + 1,
                           !.temps = Append(@, RetryTemperature(
                                                   {r0.nimRequest.temperature})),
                           !.quality = Append(@, passed)],
              finished |-> IdleRequest]
        ELSE [slot |-> IdleRequest,
              finished |-> [r0 EXCEPT
                               !.pc = "done",
                               !.quality = Append(@, passed),
                               !.response = {reply},
                               !.res = [status |-> 200, choices |-> {reply.content},
                                        error |-> NONE]]]

\* Lines 403-426 and 522-534: a completion call of slot r returns.  A
\* rejected call, or a reply without choices, throws into the handler's catch.
\* A handler instance that has sent its response moves to `finished` and
\* leaves its slot free.
CompletionReturns(r, reply) ==
    /\ req[r].pc = "calling"
    /\ LET out == IF reply.kind # "ok" THEN CatchError(req[r], reply)
                  ELSE OnCompletion(req[r], reply)
       IN  /\ req' = [req EXCEPT ![r] = out.slot]
           /\ finished' = out.finished
    /\ UNCHANGED <<CORE_MEMORIES, STORY_SUMMARIES, LAST_SUMMARY_AT, received, tempIds,
                   coreWrites, summarizedAt, stream>>

\* The replies the completion call is given where the retry helper is not
\* what is examined: one that passes the quality test and one HTTP failure.
FewCompletionReplies == {OkReply({GoodText}), HttpError(429)}

NoneInFlight == \A q \in Slots : req[q].pc = "idle"

\* Requests to the memory handler that may overlap.
Next ==
    \/ \E r \in Slots, header \in Headers, n \in OverlapWindowLengths :
          received < MaxRequests /\ Receive(r, header, n, {})
    \/ \E r \in Slots, reply \in SummaryReplies : SummaryReturns(r, reply)
    \/ \E r \in Slots, reply \in FewCompletionReplies : CompletionReturns(r, reply)

\* Requests to the memory handler, each answered before the next arrives.
SeqNext ==
    \/ \E r \in Slots, header \in Headers, n \in WindowLengths :
          received < MaxSeqRequests /\ NoneInFlight /\ Receive(r, header, n, {})
    \/ \E r \in Slots, reply \in SummaryReplies : SummaryReturns(r, reply)
    \/ \E r \in Slots, reply \in FewCompletionReplies : CompletionReturns(r, reply)

\* Requests to the memory handler with every temperature and every reply of
\* the completion call, each answered before the next arrives.
RetryNext ==
    \/ \E r \in Slots, header \in Headers, n \in WindowLengths, t \in Temperatures :
          received < MaxRetryRequests /\ NoneInFlight /\ Receive(r, header, n, t)
    \/ \E r \in Slots, reply \in SummaryReplies : SummaryReturns(r, reply)
    \/ \E r \in Slots, reply \in CompletionReplies : CompletionReturns(r, reply)

\* requests received in one behaviour when the in-band commands are examined
MaxWipeRequests == 3
\* the body lengths drawn from there
WipeWindowLengths == {60, 61}

\* Requests to the memory handler whose final message may be a command, each
\* answered before the next arrives.
WipeNext ==
    \/ \E r \in Slots, header \in Headers, n \in WipeWindowLengths, final \in FinalMessages :
          received < MaxWipeRequests /\ NoneInFlight
          /\ ReceiveBody(r, header, n, {}, final)
    \/ \E r \in Slots, reply \in SummaryReplies : SummaryReturns(r, reply)
    \/ \E r \in Slots, reply \in FewCompletionReplies : CompletionReturns(r, reply)

Spec == Init /\ [][Next]_vars
WipeSpec == Init /\ [][WipeNext]_vars
SeqSpec == Init /\ [][SeqNext]_vars
RetrySpec == Init /\ [][RetryNext]_vars

(***************************************************************************)
(* The stream merger: response.data.on('data') of src/unnamed/part_000,    *)
(* lines 183-215, and upstream.data.on('data') of streamToClient,          *)
(* src/server.js lines 190-238.                                            *)
(*                                                                         *)
(* Upstream sends bytes; a chunk is a Buffer and chunk.toString() decodes  *)
(* it as UTF-8 on its own.  A byte below 0x80 is written as its character. *)
(* LEAD and CONT are the two bytes 0xC3 0xA9 of the character E_ACUTE; a   *)
(* byte that does not decode becomes the replacement character U+FFFD.     *)
(***************************************************************************)
LEAD == "<C3>"
CONT == "<A9>"
E_ACUTE == "<U+00E9>"
REPLACEMENT == "<U+FFFD>"
LF == "\n"

\* Buffer.prototype.toString(): UTF-8 decoding of one chunk
RECURSIVE Utf8Decode(_)
Utf8Decode(bytes) ==
    IF bytes = <<>> THEN <<>>
    ELSE IF bytes[1] = LEAD
         THEN IF Len(bytes) >= 2 /\ bytes[2] = CONT
              THEN <<E_ACUTE>> \o Utf8Decode(SubSeq(bytes, 3, Len(bytes)))
              ELSE <<REPLACEMENT>> \o Utf8Decode(Tail(bytes))
         ELSE IF bytes[1] = CONT
              THEN <<REPLACEMENT>> \o Utf8Decode(Tail(bytes))
              ELSE <<bytes[1]>> \o Utf8Decode(Tail(bytes))

\* String.prototype.split('\n'): the pieces between line feeds, the last one
\* being what follows the last line feed (the whole string when there is none)
RECURSIVE SplitLines(_)
SplitLines(str) ==
    IF \E i \in 1..Len(str) : str[i] = LF
    THEN LET i == CHOOSE i \in 1..Len(str) :
                     str[i] = LF /\ \A j \in 1..(i - 1) : str[j] # LF
         IN  <<SubSeq(str, 1, i - 1)>> \o SplitLines(SubSeq(str, i + 1, Len(str)))
    ELSE <<str>>

\* 'data: ' and '[DONE]'
DATA_PREFIX == <<"d", "a", "t", "a", ":", " ">>
DONE_SENTINEL == <<"[", "D", "O", "N", "E", "]">>

\* String.prototype.startsWith and includes
StartsWith(str, prefix) ==
    Len(str) >= Len(prefix) /\ SubSeq(str, 1, Len(prefix)) = prefix
Includes(str, part) ==
    \E i \in 1..(Len(str) - Len(part) + 1) : SubSeq(str, i, i + Len(part) - 1) = part

(***************************************************************************)
(* JSON payloads.  The text of an event object                             *)
(*     {"choices":[{"delta":{"reasoning_content":..,"content":".."}}]}     *)
(* is written { r c x.. }: the braces stand for the object around the      *)
(* delta, r for a reasoning_content member, c for a content member and the *)
(* characters after c for the characters of the content string.  0 is a    *)
(* JSON text without choices.  A space is whitespace between tokens.  Any  *)
(* other text is not JSON.                                                 *)
(***************************************************************************)
ContentChars == {"x", E_ACUTE, REPLACEMENT}

NotJson == [ok |-> FALSE, delta |-> FALSE, reasoning |-> FALSE, hasContent |-> FALSE,
            content |-> <<>>]

NotSpace(ch) == ch # " "

\* JSON.parse: the value of a payload, or NotJson where JSON.parse throws
JsonParse(payload) ==
    LET tokens == SelectSeq(payload, NotSpace)
    IN  IF tokens = <<"0">>
        THEN [NotJson EXCEPT !.ok = TRUE]
        ELSE IF Len(tokens) >= 2 /\ tokens[1] = "{" /\ tokens[Len(tokens)] = "}"
        THEN LET members == SubSeq(tokens, 2, Len(tokens) - 1)
                 reasoning == members # <<>> /\ members[1] = "r"
                 rest == IF reasoning THEN Tail(members) ELSE members
             IN  IF rest = <<>>
                 THEN [ok |-> TRUE, delta |-> TRUE, reasoning |-> reasoning,
                       hasContent |-> FALSE, content |-> <<>>]
                 ELSE IF rest[1] = "c" /\ \A j \in 2..Len(rest) : rest[j] \in ContentChars
                 THEN [ok |-> TRUE, delta |-> TRUE, reasoning |-> reasoning,
                       hasContent |-> TRUE, content |-> Tail(rest)]
                 ELSE NotJson
        ELSE NotJson

\* JSON.stringify: the text of a value, without whitespace
JsonStringify(data) ==
    IF ~data.delta THEN <<"0">>
    ELSE <<"{">> \o (IF data.reasoning THEN <<"r">> ELSE <<>>)
         \o (IF data.hasContent THEN <<"c">> \o data.content ELSE <<>>)
         \o <<"}">>

\* part_000 lines 199-203: delete delta.reasoning_content;
\* delta.content = delta.content || ''
StripReasoning(data) ==
    IF data.delta
    THEN [data EXCEPT !.reasoning = FALSE, !.hasContent = TRUE]
    ELSE data

\* line 20 of src/server.js: const SHOW_REASONING = false
SHOW_REASONING == FALSE

\* what SHOW_REASONING puts before the first reasoning text and after each
TRACE_OPEN == "<Trace>"
TRACE_BREAK == "<break>"

\* server.js lines 210-225: with SHOW_REASONING, reasoning_content is moved
\* into content; without it the value is left as parsed.  Yields the value
\* and the new reasoningStarted.
MergeReasoning(data, reasoningStarted) ==
    IF SHOW_REASONING /\ data.delta /\ data.reasoning
    THEN [data |-> [data EXCEPT !.reasoning = FALSE, !.hasContent = TRUE,
                                !.content = (IF reasoningStarted THEN <<>>
                                             ELSE <<TRACE_OPEN>>)
                                            \o <<"r", TRACE_BREAK>>],
          reasoningStarted |-> TRUE]
    ELSE IF SHOW_REASONING /\ data.delta /\ data.hasContent /\ data.content # <<>>
    THEN [data |-> [data EXCEPT !.reasoning = FALSE],
          reasoningStarted |-> reasoningStarted]
    ELSE [data |-> data, reasoningStarted |-> reasoningStarted]

\* a catch that writes nothing for the line
OnParseFailureDrop(line) == <<>>

\* part_000 lines 205-207, server.js lines 228-231: the catch of the line's
\* try; the line is written as it was read, followed by a line feed
OnParseFailure(line) == <<line \o <<LF>>>>

\* the two handlers that forward a stream
StreamHandlers == {"part_000", "streamToClient"}

\* One line of the forEach / for loop (part_000 lines 190-208, server.js lines
\* 198-232): the frames written for it (none or one) and the new
\* reasoningStarted.
ProcessLine(handler, line, reasoningStarted) ==
    IF ~StartsWith(line, DATA_PREFIX)
    THEN [frames |-> <<>>, reasoningStarted |-> reasoningStarted]
    ELSE IF Includes(line, DONE_SENTINEL)
    THEN [frames |-> <<line \o (IF handler = "part_000" THEN <<LF>> ELSE <<LF, LF>>)>>,
          reasoningStarted |-> reasoningStarted]
    ELSE LET parsed == JsonParse(SubSeq(line, Len(DATA_PREFIX) + 1, Len(line)))
         IN  IF ~parsed.ok
             THEN [frames |-> OnParseFailure(line), reasoningStarted |-> reasoningStarted]
             ELSE IF handler = "part_000"
             THEN [frames |-> <<DATA_PREFIX \o JsonStringify(StripReasoning(parsed))
                                \o <<LF, LF>>>>,
                   reasoningStarted |-> reasoningStarted]
             ELSE LET merged == MergeReasoning(parsed, reasoningStarted)
                  IN  [frames |-> <<DATA_PREFIX \o JsonStringify(merged.data)
                                     \o <<LF, LF>>>>,
                       reasoningStarted |-> merged.reasoningStarted]

\* the loop over the complete lines, in order
RECURSIVE ProcessLines(_, _, _)
ProcessLines(handler, lines, reasoningStarted) ==
    IF lines = <<>>
    THEN [frames |-> <<>>, reasoningStarted |-> reasoningStarted]
    ELSE LET first == ProcessLine(handler, Head(lines), reasoningStarted)
             rest == ProcessLines(handler, Tail(lines), first.reasoningStarted)
         IN  [frames |-> first.frames \o rest.frames,
              reasoningStarted |-> rest.reasoningStarted]

\* The 'data' listener (part_000 lines 185-209, server.js lines 193-232) run
\* on one chunk from the locals st: buffer += chunk.toString(); the lines but
\* the last are processed; buffer = lines.pop() || ''.
OnData(st, chunk) ==
    LET lines == SplitLines(st.buffer \o Utf8Decode(chunk))
        done == ProcessLines(st.handler, SubSeq(lines, 1, Len(lines) - 1),
                             st.reasoningStarted)
    IN  [st EXCEPT !.buffer = lines[Len(lines)],
                   !.reasoningStarted = done.reasoningStarted,
                   !.written = @ \o done.frames,
                   !.lines = @ \o SubSeq(lines, 1, Len(lines) - 1)]

\* the byte sequences upstream sends
UpstreamStreams ==
    {DATA_PREFIX \o <<"{", "c", "x", LEAD, CONT, "}", LF, LF>>
        \o DATA_PREFIX \o DONE_SENTINEL \o <<LF, LF>>,
     DATA_PREFIX \o <<"{", "r", " ", "c", "x", "}", LF>>
        \o <<":", "k", LF>>
        \o DATA_PREFIX \o <<"{", "c", "#", LF>>
        \o DATA_PREFIX \o <<"0">>,
     DATA_PREFIX \o <<"{", "r", "}", LF, LF>>
        \o DATA_PREFIX \o <<"{", "}", LF>>
        \o DATA_PREFIX \o <<"{", "c", "x", "}">>,
     DATA_PREFIX \o <<"#", LF>>
        \o DATA_PREFIX \o <<"{", "c", "x", "}", LF, LF>>
        \o DATA_PREFIX \o DONE_SENTINEL \o <<LF>>}

(***************************************************************************)
(* The streaming branch as a state machine.                                *)
(***************************************************************************)
\* part_000 lines 178-183, server.js lines 172-191: the upstream call resolved
\* with a stream; the headers are set and buffer is ''
StreamOpen(handler, bytes) ==
    /\ stream.pc = "idle"
    /\ stream' = [NoStream EXCEPT !.pc = "streaming", !.handler = handler,
                                  !.upstream = bytes]
    /\ UNCHANGED <<CORE_MEMORIES, STORY_SUMMARIES, LAST_SUMMARY_AT, req, finished,
                   received, tempIds, coreWrites, summarizedAt>>

\* a 'data' event with the next k bytes of the stream
StreamData(k) ==
    /\ stream.pc = "streaming"
    /\ k >= 1
    /\ stream.delivered + k <= Len(stream.upstream)
    /\ stream' = [OnData(stream, SubSeq(stream.upstream, stream.delivered + 1,
                                        stream.delivered + k))
                    EXCEPT !.delivered = @ + k, !.chunks = @ + 1]
    /\ UNCHANGED <<CORE_MEMORIES, STORY_SUMMARIES, LAST_SUMMARY_AT, req, finished,
                   received, tempIds, coreWrites, summarizedAt>>

\* part_000 line 211, server.js line 234: the 'end' event, after the last
\* byte; res.end() closes the response
StreamEnd ==
    /\ stream.pc = "streaming"
    /\ stream.delivered = Len(stream.upstream)
    /\ stream' = [stream EXCEPT !.pc = "ended"]
    /\ UNCHANGED <<CORE_MEMORIES, STORY_SUMMARIES, LAST_SUMMARY_AT, req, finished,
                   received, tempIds, coreWrites, summarizedAt>>

\* part_000 lines 212-215, server.js lines 235-238: the 'error' event, at any
\* point of the stream; res.end() closes the response
StreamError ==
    /\ stream.pc = "streaming"
    /\ stream' = [stream EXCEPT !.pc = "failed"]
    /\ UNCHANGED <<CORE_MEMORIES, STORY_SUMMARIES, LAST_SUMMARY_AT, req, finished,
                   received, tempIds, coreWrites, summarizedAt>>

\* The client closes its connection while the stream is forwarded.  Neither
\* handler registers a 'close' listener on req or res, nor an abort signal on
\* the upstream call: no line of the handler runs.
ClientDisconnects ==
    /\ stream.pc = "streaming"
    /\ stream.clientClosed = {}
    /\ stream' = [stream EXCEPT !.clientClosed = {[frames |-> Len(stream.written),
                                                   delivered |-> stream.delivered]}]
    /\ UNCHANGED <<CORE_MEMORIES, STORY_SUMMARIES, LAST_SUMMARY_AT, req, finished,
                   received, tempIds, coreWrites, summarizedAt>>

MaxStreamLength == 40

StreamNext ==
    \/ \E handler \in StreamHandlers, bytes \in UpstreamStreams : StreamOpen(handler, bytes)
    \/ \E k \in 1..MaxStreamLength : StreamData(k)
    \/ StreamEnd
    \/ StreamError

\* the streams upstream sends where the client may disconnect
DisconnectStreams ==
    {DATA_PREFIX \o <<"{", "c", "x", "}", LF, LF>> \o DATA_PREFIX \o DONE_SENTINEL \o <<LF, LF>>}

\* A streaming response whose client may disconnect at any point.
DisconnectNext ==
    \/ \E handler \in StreamHandlers, bytes \in DisconnectStreams : StreamOpen(handler, bytes)
    \/ \E k \in 1..MaxStreamLength : StreamData(k)
    \/ StreamEnd
    \/ StreamError
    \/ ClientDisconnects

StreamSpec == Init /\ [][StreamNext]_vars
DisconnectSpec == Init /\ [][DisconnectNext]_vars

(***************************************************************************)
(* Properties of the memory maps.                                          *)
(***************************************************************************)
InFlight(r) == req[r].pc # "idle"

\* C1: every chat id a request has been received for has a core memory, that
\* core memory has been written by exactly one CORE_MEMORIES.set call, however
\* many requests to this id or to other ids followed, and it holds the text
\* it was seeded with.
C1_CorePersonaWrittenOnce ==
    /\ DOMAIN coreWrites = DOMAIN CORE_MEMORIES
    /\ \A id \in DOMAIN CORE_MEMORIES :
          /\ coreWrites[id] = 1
          /\ CORE_MEMORIES[id] = CORE_MEMORY_TEXT
    /\ \A r \in Slots : InFlight(r) => Has(CORE_MEMORIES, req[r].CHAT_ID)

\* two requests have been received for one chat id, one after the other
C1_Witness ==
    \E r, q \in Slots :
        /\ r # q
        /\ InFlight(r) /\ InFlight(q)
        /\ req[r].CHAT_ID = req[q].CHAT_ID
        /\ coreWrites[req[r].CHAT_ID] = 1

\* C2: in no step does the stored LAST_SUMMARY_AT of a chat id decrease.
C2_LastSummaryAtNeverDecreases ==
    [][\A id \in DOMAIN LAST_SUMMARY_AT :
          /\ id \in DOMAIN LAST_SUMMARY_AT'
          /\ LAST_SUMMARY_AT'[id] >= LAST_SUMMARY_AT[id]]_vars

\* the values summarizeChat returns for a failed call and for empty or
\* missing text
FailedSummaries == {NULL, UNDEFINED, ""}

\* C3: a step in which the summarizer call of a request returns with a
\* failure, with an empty text or with no text leaves the stored summaries and
\* cooldown marks as they were.
C3_FailedSummaryKeepsMemory ==
    [][\A r \in Slots :
          (/\ req[r].pc = "summarizing"
           /\ req'[r].pc = "calling"
           /\ req'[r].summary \in FailedSummaries)
          => UNCHANGED <<STORY_SUMMARIES, LAST_SUMMARY_AT>>]_vars

\* a summarizer call returned no text for a chat whose summary is stored
C3_Witness ==
    \E r \in Slots :
        /\ req[r].pc = "calling"
        /\ req[r].summary = ""
        /\ Has(STORY_SUMMARIES, req[r].CHAT_ID)
        /\ Has(LAST_SUMMARY_AT, req[r].CHAT_ID)

\* C4: a request whose window length is at most SUMMARY_TRIGGER_MESSAGES
\* never has a summarizer call in flight and never has a value returned by
\* one.
C4_NoSummaryAtOrBelowThreshold ==
    \A r \in Slots :
        (InFlight(r) /\ req[r].nMessages <= SUMMARY_TRIGGER_MESSAGES)
        => (req[r].pc # "summarizing" /\ req[r].summary = NONE)

\* a request of exactly SUMMARY_TRIGGER_MESSAGES messages went on to its
\* completion call
C4_Witness ==
    \E r \in Slots :
        /\ req[r].pc = "calling"
        /\ req[r].nMessages = SUMMARY_TRIGGER_MESSAGES
        /\ req[r].summary = NONE

\* the window lengths at which a summary of chat id was stored
StoredSummaryLengths(id) == IF Has(summarizedAt, id) THEN summarizedAt[id] ELSE {}

\* C5: with requests handled one after the other, a request that arrives with
\* window length n > SUMMARY_TRIGGER_MESSAGES and n - lastSummaryAt >=
\* SUMMARY_COOLDOWN invokes the summarizer; a summarizer call that returns a
\* summary sets LAST_SUMMARY_AT to n; and a request invokes the summarizer
\* only if its window length is at least SUMMARY_COOLDOWN more than every
\* length at which a summary of its chat was stored before.
C5_CooldownSequential ==
    [][\A r \in Slots :
          LET id == req'[r].CHAT_ID
              n == req'[r].nMessages
          IN  /\ (req[r].pc = "idle" /\ req'[r].pc # "idle")
                 => /\ (/\ n > SUMMARY_TRIGGER_MESSAGES
                        /\ n - LastAt(LAST_SUMMARY_AT, id) >= SUMMARY_COOLDOWN)
                       => req'[r].pc = "summarizing"
                    /\ req'[r].pc = "summarizing"
                       => \A k \in StoredSummaryLengths(id) : n - k >= SUMMARY_COOLDOWN
              /\ (/\ req[r].pc = "summarizing"
                  /\ req'[r].pc = "calling"
                  /\ req'[r].summary \notin FailedSummaries)
                 => /\ Has(LAST_SUMMARY_AT', id)
                    /\ LAST_SUMMARY_AT'[id] = n]_vars

\* a summary was stored at window length 61 and a later request of 70
\* messages went on to its completion call without a summarizer call
C5_Witness ==
    \E r \in Slots :
        /\ req[r].pc = "calling"
        /\ req[r].nMessages = 70
        /\ req[r].summary = NONE
        /\ LastAt(LAST_SUMMARY_AT, req[r].CHAT_ID) = 61
        /\ StoredSummaryLengths(req[r].CHAT_ID) = {61}

(***************************************************************************)
(* Properties of the retry helper and of the error response.               *)
(***************************************************************************)
\* the handler instances there are: those in flight and the one just ended
Instances == {req[r] : r \in Slots} \cup {finished}

AllFailed(quality) == \A i \in 1..Len(quality) : ~quality[i]

\* the replies of an upstream call that failed at the transport or HTTP level
TransportOrHttpFailures == {HttpError(st) : st \in UpstreamErrorStatuses} \cup {TransportError}

C7_RetryTemperature ==
    \A i \in Instances :
        /\ \A k \in 1..(Len(i.temps) - 1) :
              /\ i.temps[k + 1] = Min(i.temps[k] + TEMPERATURE_STEP, TEMPERATURE_CEILING)
              /\ i.temps[k + 1] = Min(i.temps[1] + k * TEMPERATURE_STEP, TEMPERATURE_CEILING)
        /\ i.pc = "calling" => i.nimRequest.temperature = i.temps[Len(i.temps)]

\* a request retried twice from 0.98: the retries were clamped to 1
C7_Witness == \E i \in Instances : i.temps = <<98, 100, 100>>

\* C8: a step in which a completion call returns with a transport or HTTP
\* failure ends the handler instance with an error response carrying the
\* failure message; the instance has made no call beyond the failed one.
C8_FailureNotRetried ==
    [][\A r \in Slots : \A reply \in TransportOrHttpFailures :
          CompletionReturns(r, reply)
          => /\ req'[r].pc = "idle"
             /\ finished'.pc = "done"
             /\ finished'.res.status >= 400
             /\ finished'.res.error = reply.message
             /\ finished'.temps = req[r].temps]_vars

\* the second retry of a request failed at the HTTP level
C8_Witness ==
    /\ finished.pc = "done"
    /\ finished.err = {HttpError(429)}
    /\ finished.attempt = MAX_RETRIES
    /\ finished.res.status >= 400

\* C9: the error response sent after an upstream HTTP failure carries the
\* status code of the upstream reply and the failure message.
C9_ErrorCarriesUpstreamStatus ==
    \A err \in finished.err :
        err.kind = "http"
        => /\ {finished.res.status} = err.status
           /\ finished.res.error = err.message


(***************************************************************************)
(* Properties of the stream merger.                                        *)
(***************************************************************************)
\* the frames written when the bytes delivered so far arrive as one chunk
SingleChunkFrames ==
    OnData([NoStream EXCEPT !.handler = stream.handler],
           SubSeq(stream.upstream, 1, stream.delivered)).written

\* C10: however the bytes delivered so far were split into two or more
\* chunks, the frames written to the client are the frames written when the
\* same bytes arrive as a single chunk.
C10_ChunkingWritesSameFrames ==
    stream.chunks >= 2 => stream.written = SingleChunkFrames

\* a forwarded event frame whose delta carries no text: data: {"choices":
\* [{"delta":{}}]} or the same with "content":""
EmptyDeltaFrames ==
    {DATA_PREFIX \o <<"{", "}", LF, LF>>, DATA_PREFIX \o <<"{", "c", "}", LF, LF>>}

\* C11: a stream that upstream ended normally, and whose response is
\* therefore closed, has an empty-delta frame among the frames written
\* before the close.
C11_EndWritesEmptyDelta ==
    stream.pc = "ended" =>
        \E f \in 1..Len(stream.written) : stream.written[f] \in EmptyDeltaFrames

IsDataLine(line) == StartsWith(line, DATA_PREFIX)
\* a data-prefixed line whose payload JSON.parse rejects
IsMalformed(line) ==
    IsDataLine(line) /\ ~JsonParse(SubSeq(line, Len(DATA_PREFIX) + 1, Len(line))).ok
\* the line itself, closed by one line feed or by the blank line of an event
RawForwards(line) == {line \o <<LF>>, line \o <<LF, LF>>}

CallClientMessages(r) ==
    IF req[r].pc = "summarizing" THEN SummaryMessages(r)
    ELSE RunOf(req[r].nMessages, req[r].nimRequest.window)

\* C13, for the completion call alone: contents are capped, the window has at
\* most MAX_MESSAGES entries and is the newest part of the body
C13_CompletionWindowBounded ==
    \A r \in Slots : req[r].pc = "calling" =>
        LET window == CallClientMessages(r)
        IN  /\ \A i \in 1..Len(window) : window[i].content.len <= MAX_MESSAGE_CHARS
            /\ Len(window) <= MAX_MESSAGES
            /\ window = SliceLast(SafeMessages(req[r].nMessages), Len(window))

\* C13: in every upstream call in flight, summarizer call or completion call,
\* each client message has at most MAX_MESSAGE_CHARS characters and the call
\* carries at most MAX_MESSAGES client messages.
C13_EveryCallBounded ==
    \A r \in Slots : InFlight(r) =>
        LET messages == CallClientMessages(r)
        IN  /\ \A i \in 1..Len(messages) : messages[i].content.len <= MAX_MESSAGE_CHARS
            /\ Len(messages) <= MAX_MESSAGES

\* nimRequest.messages of slot r after the step
NimMessagesAfter(r) ==
    req'[r].nimRequest.injection \o RunOf(req'[r].nMessages, req'[r].nimRequest.window)

\* C14: when a handler instance issues its first completion call, the message
\* list is the core persona, then the rolling summary exactly when one is
\* stored for the chat, then the persona lock, then the newest clamped
\* messages of the body in their order; no memory layer has empty content.
\* (The code stores no scene snapshot.)
C14_PromptOrder ==
    [][\A r \in Slots :
          (req[r].pc # "calling" /\ req'[r].pc = "calling") =>
              LET id == req'[r].CHAT_ID
                  n == req'[r].nMessages
                  messages == NimMessagesAfter(r)
                  layers == IF Has(STORY_SUMMARIES', id) THEN 3 ELSE 2
                  kept == Min(n, MAX_MESSAGES)
              IN  /\ Len(messages) = layers + kept
                  /\ messages[1] = [role |-> "system", content |-> CORE_MEMORIES'[id]]
                  /\ Has(STORY_SUMMARIES', id) =>
                        messages[2] = [role |-> "system", content |-> STORY_SUMMARIES'[id]]
                  /\ messages[layers] = [role |-> "system", content |-> ROLEPLAY_LOCK_TEXT]
                  /\ \A j \in 1..layers : messages[j].content # ""
                  /\ \A j \in 1..kept :
                        LET m == BodyMessage(n, n - kept + j)
                        IN  messages[layers + j] =
                                [m EXCEPT !.content.len = Min(@, MAX_MESSAGE_CHARS)]]_vars

\* a completion call in flight whose list has the three layers and the 80
\* newest of 101 messages
C14_Witness ==
    \E r \in Slots :
        /\ req[r].pc = "calling"
        /\ req[r].nMessages = 101
        /\ Len(req[r].nimRequest.injection) = 3
        /\ Len(NimMessages(r)) = 83
        /\ NimMessages(r)[4].content.src = 22

(***************************************************************************)
(* Properties of the in-band commands and of the chat identity.            *)
(***************************************************************************)
\* the chat ids with a memory record, before and after a step
Records == DOMAIN CORE_MEMORIES \cup DOMAIN STORY_SUMMARIES \cup DOMAIN LAST_SUMMARY_AT
RecordsAfter ==
    DOMAIN CORE_MEMORIES' \cup DOMAIN STORY_SUMMARIES' \cup DOMAIN LAST_SUMMARY_AT'
OthersUnchanged(id) ==
    /\ \A k \in DOMAIN CORE_MEMORIES \ {id} :
          k \in DOMAIN CORE_MEMORIES' /\ CORE_MEMORIES'[k] = CORE_MEMORIES[k]
    /\ \A k \in DOMAIN STORY_SUMMARIES \ {id} :
          k \in DOMAIN STORY_SUMMARIES' /\ STORY_SUMMARIES'[k] = STORY_SUMMARIES[k]
    /\ \A k \in DOMAIN LAST_SUMMARY_AT \ {id} :
          k \in DOMAIN LAST_SUMMARY_AT' /\ LAST_SUMMARY_AT'[k] = LAST_SUMMARY_AT[k]

\* C15: the step that receives a request whose final message is the wipe
\* command of its chat leaves that chat without a record and every other
\* record as it was; one whose final message is the global wipe command
\* leaves no record; in both cases the request waits for no upstream call.
C15_WipeCommands ==
    [][received' = received + 1 =>
          \A r \in Slots :
              (req'[r] # req[r] /\ req'[r].finalMessage \in WipeCommands) =>
                  /\ req'[r].pc \notin {"summarizing", "calling"}
                  /\ req'[r].finalMessage = WIPE_CHAT_COMMAND =>
                        req'[r].CHAT_ID \notin RecordsAfter /\ OthersUnchanged(req'[r].CHAT_ID)
                  /\ req'[r].finalMessage = WIPE_ALL_COMMAND => RecordsAfter = {}]_vars

\* the keys given to requests without the x-chat-id header, each of which
\* seeded a core memory
HeaderlessKeys == DOMAIN CORE_MEMORIES \ HeaderIds

\* C16: bodies of every length start with the same first message, so all
\* requests without an explicit identifier resolve to one key and find the
\* record the first of them created.
C16_SameFirstMessageSameKey ==
    (\A n1, n2 \in WindowLengths : BodyMessage(n1, 1) = BodyMessage(n2, 1)) =>
        /\ Cardinality(HeaderlessKeys) <= 1
        /\ \A id \in HeaderlessKeys : coreWrites[id] = 1 /\ tempIds >= 1

\* C17: once the client has disconnected, no further chunk of the upstream
\* stream is consumed and no further frame is written to the response.
C17_DisconnectStopsForwarding ==
    \A c \in stream.clientClosed :
        /\ stream.delivered = c.delivered
        /\ Len(stream.written) = c.frames

(***************************************************************************)
(* Properties of the summarization round.                                  *)
(***************************************************************************)
\* C18: when the summarizer call of a handler instance ends without a summary
\* text (error status, transport error, reply without choices, missing or
\* empty content), the instance goes on to its completion call, the maps are
\* as before, and the prompt carries the core memory and the summary that
\* were stored before the call ended.
C18_SummaryFailureNotFatal ==
    [][\A r \in Slots :
          (req[r].pc = "summarizing" /\ req'[r] # req[r]
           /\ req'[r].summary \notin SummaryTexts) =>
              LET id == req[r].CHAT_ID
                  injection == req'[r].nimRequest.injection
              IN  /\ req'[r].pc = "calling"
                  /\ finished' = IdleRequest
                  /\ UNCHANGED <<CORE_MEMORIES, STORY_SUMMARIES, LAST_SUMMARY_AT>>
                  /\ injection[1].content = CORE_MEMORIES[id]
                  /\ IF id \in DOMAIN STORY_SUMMARIES
                     THEN Len(injection) = 3 /\ injection[2].content = STORY_SUMMARIES[id]
                     ELSE Len(injection) = 2
                  /\ injection[Len(injection)].content = ROLEPLAY_LOCK_TEXT]_vars

\* a completion call in flight after a failed summarizer call, made with the
\* summary an earlier request stored
C18_Witness ==
    \E r \in Slots :
        /\ req[r].pc = "calling"
        /\ req[r].summary = NULL
        /\ Len(req[r].nimRequest.injection) = 3
        /\ req[r].nimRequest.injection[2].content \in SummaryTexts

\* a step changed what map holds for id
Written(map, mapAfter, id) == id \notin DOMAIN map \/ mapAfter[id] # map[id]

\* C19: after every step a chat has a stored summary exactly when it has a
\* stored cooldown mark, and a step that writes either for a chat is the step
\* of one handler instance of that chat returning from its summarizer call,
\* which leaves its summary in one map and its window length in the other.
C19_SummaryAndMarkTogether ==
    [][/\ DOMAIN STORY_SUMMARIES' = DOMAIN LAST_SUMMARY_AT'
       /\ \A id \in DOMAIN STORY_SUMMARIES' \cup DOMAIN LAST_SUMMARY_AT' :
             (Written(STORY_SUMMARIES, STORY_SUMMARIES', id)
              \/ Written(LAST_SUMMARY_AT, LAST_SUMMARY_AT', id)) =>
                 \E r \in Slots :
                     /\ req[r].pc = "summarizing"
                     /\ req[r].CHAT_ID = id
                     /\ req'[r].pc = "calling"
                     /\ STORY_SUMMARIES'[id] = req'[r].summary
                     /\ LAST_SUMMARY_AT'[id] = req[r].nMessages]_vars

\* two requests of one chat interleave: one has stored its summary and its
\* mark of 101 while the other, received before that, waits for its summarizer
C19_Witness ==
    \E id \in DOMAIN STORY_SUMMARIES :
        /\ LAST_SUMMARY_AT[id] = 101
        /\ \E r \in Slots : /\ req[r].pc = "summarizing"
                            /\ req[r].CHAT_ID = id
                            /\ req[r].lastAt = 0
                            /\ req[r].nMessages = 61

\* C20: the list a handler instance hands to summarizeChat is not empty and
\* is the body without its SUMMARY_KEEP_RECENT newest messages: the messages
\* at positions 1 .. n - 20 of the body, in that order, clamped.
C20_SummarizerInput ==
    \A r \in Slots : req[r].pc = "summarizing" =>
        LET n == req[r].nMessages
            messages == SummaryMessages(r)
        IN  /\ messages # <<>>
            /\ Len(messages) = n - SUMMARY_KEEP_RECENT
            /\ \A i \in 1..Len(messages) :
                  /\ messages[i].content.src = i
                  /\ messages[i].role = BodyMessage(n, i).role
                  /\ messages[i].content.len = Min(BodyMessage(n, i).content.len,
                                                   MAX_MESSAGE_CHARS)

\* a summarizer call in flight with the 81 oldest of 101 messages
C20_Witness ==
    \E r \in Slots :
        /\ req[r].pc = "summarizing"
        /\ req[r].nMessages = 101
        /\ Len(SummaryMessages(r)) = 81
        /\ SummaryMessages(r)[81].content.src = 81

\* what the client reads as the event of a frame: the JSON value after the
\* data prefix, the line feeds that close the frame left off
FrameData(frame) ==
    LET text == SelectSeq(frame, LAMBDA ch : ch # LF)
    IN  IF StartsWith(text, DATA_PREFIX)
        THEN JsonParse(SubSeq(text, Len(DATA_PREFIX) + 1, Len(text)))
        ELSE NotJson

\* C21, for the handler of part_000 alone
C21_Part000StripsReasoning ==
    stream.handler = "part_000" =>
        \A f \in 1..Len(stream.written) : ~FrameData(stream.written[f]).reasoning

\* C21: reasoning display is off, and no frame written to the client has a
\* delta with the reasoning_content member.
C21_NoReasoningForwarded ==
    ~SHOW_REASONING =>
        \A f \in 1..Len(stream.written) : ~FrameData(stream.written[f]).reasoning

Distance(a, b) == IF a >= b THEN a - b ELSE b - a

\* C22: two summarizer calls of one chat are never in flight together for
\* window lengths less than SUMMARY_COOLDOWN apart, and no summarizer call
\* is in flight for a window length less than SUMMARY_COOLDOWN away from one
\* whose summary was stored for the chat.
C22_CooldownUnderInterleaving ==
    /\ \A r1, r2 \in Slots :
          (r1 # r2 /\ req[r1].pc = "summarizing" /\ req[r2].pc = "summarizing"
           /\ req[r1].CHAT_ID = req[r2].CHAT_ID) =>
              Distance(req[r1].nMessages, req[r2].nMessages) >= SUMMARY_COOLDOWN
    /\ \A r \in Slots :
          req[r].pc = "summarizing" =>
              \A len \in StoredSummaryLengths(req[r].CHAT_ID) :
                  Distance(req[r].nMessages, len) >= SUMMARY_COOLDOWN

\* C23: a step of a handler instance of chat A leaves what the three maps
\* hold for every other chat as it was and adds no record but A's; and the
\* prompt it assembles has A's core memory, A's summary when A has one, and
\* no summary layer when only other chats have one.
C23_ChatsIsolated ==
    [][\A r \in Slots :
          req'[r] # req[r] =>
              LET A == IF req[r].pc = "idle" THEN req'[r].CHAT_ID ELSE req[r].CHAT_ID
                  injection == req'[r].nimRequest.injection
              IN  /\ OthersUnchanged(A)
                  /\ RecordsAfter \subseteq Records \cup {A}
                  /\ (req[r].pc # "calling" /\ req'[r].pc = "calling") =>
                        /\ injection[1].content = CORE_MEMORIES'[A]
                        /\ Len(injection) = IF A \in DOMAIN STORY_SUMMARIES' THEN 3 ELSE 2
                        /\ A \in DOMAIN STORY_SUMMARIES' =>
                              injection[2].content = STORY_SUMMARIES'[A]]_vars

\* chat b has summary S1 stored; a request of chat a, interleaved with it,
\* has stored S2 for a, and its prompt carries S2
C23_Witness ==
    /\ "b" \in DOMAIN STORY_SUMMARIES
    /\ STORY_SUMMARIES["b"] = "S1"
    /\ \E r \in Slots :
          /\ req[r].pc = "calling"
          /\ req[r].CHAT_ID = "a"
          /\ req[r].summary = "S2"
          /\ req[r].nimRequest.injection[2].content = "S2"

\* the data-prefixed lines of the whole upstream stream, the text after the
\* last line feed included
SentDataLines == SelectSeq(SplitLines(Utf8Decode(stream.upstream)), IsDataLine)

\* C24: when upstream has ended, the client has been written one frame for
\* each data-prefixed line upstream sent, and no data-prefixed line is left
\* in the carry-over buffer.
C24_EveryDataLineForwarded ==
    stream.pc = "ended" =>
        /\ Len(stream.written) = Len(SentDataLines)
        /\ ~IsDataLine(stream.buffer)

=============================================================================
